---------------------------- MODULE Spec2Model ----------------------------
(***************************************************************************)
(* Model of aiida-lammps' structure-file generation:                       *)
(*   common/generate_structure.py   transform_cell,                        *)
(*                                  generate_lammps_structure              *)
(*   calculations/lammps/base.py    BaseLammpsCalculation                  *)
(*                                                                         *)
(* Real numbers are exact rationals <<n, d>> (d > 0, lowest terms), so     *)
(* every statement about numeric values is a statement of exact            *)
(* arithmetic; the inputs are chosen so that every norm taken by the QR    *)
(* factorization is rational.                                              *)
(*                                                                         *)
(* The numeric helpers are functions, f[x \in S] == ..., so that an         *)
(* argument is evaluated once, when the function is applied.               *)
(***************************************************************************)
EXTENDS Integers, Sequences, FiniteSets, TLC

VARIABLES entry, args, pc, ret, folder

vars == <<entry, args, pc, ret, folder>>

---------------------------------------------------------------------------
(* Exact rational arithmetic.                                              *)

Q == Int \X Int

Abs(n) == IF n < 0 THEN -n ELSE n

GCD[a \in Nat, b \in Nat] == IF b = 0 THEN a ELSE GCD[b, a % b]

Rat(n, d) ==
    LET g == GCD[Abs(n), Abs(d)]
        s == IF d < 0 THEN -1 ELSE 1
    IN  <<(s * n) \div g, (s * d) \div g>>

Int2Rat(n) == <<n, 1>>
Zero == Int2Rat(0)
One == Int2Rat(1)

RAdd[x \in Q, y \in Q] == Rat(x[1] * y[2] + y[1] * x[2], x[2] * y[2])
RNeg[x \in Q] == <<-x[1], x[2]>>
RSub[x \in Q, y \in Q] == RAdd[x, RNeg[y]]
RMul[x \in Q, y \in Q] == Rat(x[1] * y[1], x[2] * y[2])
RDiv[x \in Q, y \in Q] == Rat(x[1] * y[2], x[2] * y[1])
RLess[x \in Q, y \in Q] == x[1] * y[2] < y[1] * x[2]

\* the exact root of a perfect square
ISqrt[n \in Nat] == CHOOSE r \in 0..n : r * r = n
RSqrt[x \in Q] == <<ISqrt[x[1]], ISqrt[x[2]]>>

---------------------------------------------------------------------------
(* 3-vectors and 3x3 matrices (a matrix is the tuple of its rows).         *)

Idx == 1..3
Vec == Q \X Q \X Q
Mat == Vec \X Vec \X Vec

Dot[u \in Vec, v \in Vec] ==
    RAdd[RAdd[RMul[u[1], v[1]], RMul[u[2], v[2]]], RMul[u[3], v[3]]]
Scale[k \in Q, v \in Vec] == <<RMul[k, v[1]], RMul[k, v[2]], RMul[k, v[3]]>>
VSub[u \in Vec, v \in Vec] == <<RSub[u[1], v[1]], RSub[u[2], v[2]], RSub[u[3], v[3]]>>
VNorm[v \in Vec] == RSqrt[Dot[v, v]]

Col[m \in Mat, j \in Idx] == <<m[1][j], m[2][j], m[3][j]>>
Transpose[m \in Mat] == <<Col[m, 1], Col[m, 2], Col[m, 3]>>
MatVec[m \in Mat, v \in Vec] == <<Dot[m[1], v], Dot[m[2], v], Dot[m[3], v]>>
VecMat[v \in Vec, m \in Mat] == MatVec[Transpose[m], v]
MatMul[a \in Mat, b \in Mat] ==
    <<VecMat[a[1], b], VecMat[a[2], b], VecMat[a[3], b]>>
IntVec(v) == <<Int2Rat(v[1]), Int2Rat(v[2]), Int2Rat(v[3])>>
IntMat(m) == <<IntVec(m[1]), IntVec(m[2]), IntVec(m[3])>>
Diag(s) == IntMat(<<<<s[1], 0, 0>>, <<0, s[2], 0>>, <<0, 0, s[3]>>>>)
Eye == Diag(<<1, 1, 1>>)

\* F applied to the value of e, which is computed once
WithValue(e, F(_)) == CHOOSE r \in { F(v) : v \in {e} } : TRUE

---------------------------------------------------------------------------
(* np.linalg.qr(a, mode="complete") for a non-singular 3x3 matrix a.       *)
(* The factorization a = q . r with q orthogonal and r upper triangular is *)
(* unique up to the sign of each column of q (and row of r).  numpy        *)
(* documents no sign convention (LAPACK's Householder reflectors yield     *)
(* negative as well as positive diagonal entries of r), so the signs are   *)
(* a parameter that the calling action chooses nondeterministically.       *)

Signs == { <<s1, s2, s3>> : s1 \in {1, -1}, s2 \in {1, -1}, s3 \in {1, -1} }

\* v scaled to unit length, and v less its component along the unit vector q
Unit[v \in Vec] == Scale[RDiv[One, VNorm[v]], v]
Reject[v \in Vec, q \in Vec] == VSub[v, Scale[Dot[q, v], q]]

\* the orthonormal columns obtained from the columns of a, in order
Orthonormal[a \in Mat] ==
    LET q1 == Unit[Col[a, 1]]
        q2 == Unit[Reject[Col[a, 2], q1]]
        q3 == Unit[Reject[Reject[Col[a, 3], q1], q2]]
    IN  Transpose[<<q1, q2, q3>>]

\* the upper triangle of m, zero below the diagonal
Triu[m \in Mat] ==
    <<m[1], <<Zero, m[2][2], m[2][3]>>, <<Zero, Zero, m[3][3]>>>>

qr[a \in Mat, signs \in Signs] ==
    LET q == MatMul[Orthonormal[a], Diag(signs)]
    IN  [q |-> q, r |-> Triu[MatMul[Transpose[q], a]]]

---------------------------------------------------------------------------
(* transform_cell                                                          *)

\* the loop of line 35 stopping one entry short
inversion_of_two_entries(new_cell) ==
    Diag(<<IF RLess[new_cell[1][1], Zero] THEN -1 ELSE 1,
           IF RLess[new_cell[2][2], Zero] THEN -1 ELSE 1,
           1>>)

\* lines 34-37
inversion_of(new_cell) ==
    Diag(<<IF RLess[new_cell[1][1], Zero] THEN -1 ELSE 1,
           IF RLess[new_cell[2][2], Zero] THEN -1 ELSE 1,
           IF RLess[new_cell[3][3], Zero] THEN -1 ELSE 1>>)

\* line 39 left out: the rotation alone
transform_cell_no_inversion(cell, signs) ==
    WithValue(qr[Transpose[cell], signs], LAMBDA f :
    WithValue(inversion_of(Transpose[f.r]), LAMBDA inversion :
        [new_cell |-> Transpose[MatMul[inversion, Transpose[Transpose[f.r]]]],
         transform |-> Transpose[f.q],
         q |-> f.q,
         upper_tri |-> f.r,
         inversion |-> inversion]))

\* line 39 without its final transposition
transform_cell_untransposed(cell, signs) ==
    WithValue(qr[Transpose[cell], signs], LAMBDA f :
    WithValue(inversion_of(Transpose[f.r]), LAMBDA inversion :
        [new_cell |-> Transpose[MatMul[inversion, Transpose[Transpose[f.r]]]],
         transform |-> MatMul[f.q, Transpose[inversion]],
         q |-> f.q,
         upper_tri |-> f.r,
         inversion |-> inversion]))

\* the locals q (transform before line 39), upper_tri and inversion are
\* returned along with the two results so that properties can name them;
\* Transpose[f.r] is new_cell of line 30
transform_cell(cell, signs) ==
    WithValue(qr[Transpose[cell], signs], LAMBDA f :
    WithValue(inversion_of(Transpose[f.r]), LAMBDA inversion :
        [new_cell |-> Transpose[MatMul[inversion, Transpose[Transpose[f.r]]]],
         transform |-> Transpose[MatMul[f.q, Transpose[inversion]]],
         q |-> f.q,
         upper_tri |-> f.r,
         inversion |-> inversion]))

---------------------------------------------------------------------------
(* Number rendering.                                                       *)

FormatWidth == 20
FormatDecimals == 10

Pow10[n \in Nat] == IF n = 0 THEN 1 ELSE 10 * Pow10[n - 1]

\* round half to even of the rational x to an integer (np.rint)
Rint[x \in Q] ==
    LET n == Abs(x[1])
        d == x[2]
        fl == n \div d
        r2 == 2 * (n % d)
        m == IF r2 > d \/ (r2 = d /\ fl % 2 = 1) THEN fl + 1 ELSE fl
    IN  IF x[1] < 0 THEN -m ELSE m

\* np.round(x, decimals) + 0.0 (the addition turns -0.0 into 0.0; the
\* rationals have one zero)
np_round[x \in Q, decimals \in Nat] ==
    Rat(Rint[RMul[x, Int2Rat(Pow10[decimals])]], Pow10[decimals])

\* the first n decimal digits of rem/den (0 <= rem < den), by long division
Digits[rem \in Nat, den \in Nat, n \in Nat] ==
    IF n = 0 THEN <<>>
    ELSE <<(rem * 10) \div den>> \o Digits[(rem * 10) % den, den, n - 1]

RemAfter[rem \in Nat, den \in Nat, n \in Nat] ==
    IF n = 0 THEN rem ELSE RemAfter[(rem * 10) % den, den, n - 1]

\* add one unit in the last place; <<carry out, digits>>
Increment[ds \in Seq(0..9)] ==
    IF ds = <<>> THEN <<1, <<>>>>
    ELSE IF ds[Len(ds)] < 9
         THEN <<0, SubSeq(ds, 1, Len(ds) - 1) \o <<ds[Len(ds)] + 1>>>>
         ELSE <<Increment[SubSeq(ds, 1, Len(ds) - 1)][1],
                Increment[SubSeq(ds, 1, Len(ds) - 1)][2] \o <<0>>>>

DigitString[ds \in Seq(0..9)] ==
    IF ds = <<>> THEN "" ELSE ToString(Head(ds)) \o DigitString[Tail(ds)]

PadLeft[s \in STRING, width \in Nat] ==
    IF Len(s) >= width THEN s ELSE PadLeft[" " \o s, width]

\* the digits after rounding at the last one; <<carry out, digits>>
RoundedDigits[rem \in Nat, den \in Nat, decimals \in Nat, odd \in BOOLEAN] ==
    IF 2 * RemAfter[rem, den, decimals] > den
         \/ (2 * RemAfter[rem, den, decimals] = den /\ odd)
    THEN Increment[Digits[rem, den, decimals]]
    ELSE <<0, Digits[rem, den, decimals]>>

\* f"{x:.{decimals}f}" for decimals > 0: fixed notation, correctly rounded
Fixed[x \in Q, decimals \in Nat] ==
    LET n == Abs(x[1])
        d == x[2]
        up == RoundedDigits[n % d, d, decimals,
                            Digits[n % d, d, decimals][decimals] % 2 = 1]
    IN  (IF x[1] < 0 THEN "-" ELSE "")
          \o ToString((n \div d) + up[1]) \o "." \o DigitString[up[2]]

\* f"{x:20.10f}"
Format[x \in Q] == PadLeft[Fixed[x, FormatDecimals], FormatWidth]

\* the decimal digits of rem/den up to the last non-zero one (rem/den has a
\* terminating expansion)
Terminating[rem \in Nat, den \in Nat] ==
    IF rem = 0 THEN <<>>
    ELSE <<(rem * 10) \div den>> \o Terminating[(rem * 10) % den, den]

\* f"{x}" of a float with a short terminating decimal expansion
float_str[x \in Q] ==
    LET n == Abs(x[1])
        d == x[2]
        ds == Terminating[n % d, d]
    IN  (IF x[1] < 0 THEN "-" ELSE "")
          \o ToString(n \div d) \o "."
          \o (IF ds = <<>> THEN "0" ELSE DigitString[ds])

---------------------------------------------------------------------------
(* generate_lammps_structure                                               *)
(*                                                                         *)
(* An optional argument is <<>> (None) or <<v>>.  A structure is a record  *)
(* [cell, sites, kinds]: sites a sequence of [kind_name, position], kinds  *)
(* a set of [name, mass] with unique names.  The text is the sequence of   *)
(* its lines, a line the sequence of its blank-separated fields.           *)

None == <<>>
Some(v) == <<v>>

\* Python truth value of an optional number
Truthy(opt) == opt # None /\ opt[1] # 0

EmptyDict == [k \in {} |-> 0]

\* the code points of the kind names in use
CodePoints ==
    ("O" :> <<79>>) @@ ("Fe" :> <<70, 101>>) @@ ("Fe2" :> <<70, 101, 50>>)

Labels == DOMAIN CodePoints

\* Python's str order: by code point, a proper prefix first
SeqLess[u \in Seq(Nat), v \in Seq(Nat)] ==
    IF v = <<>> THEN FALSE
    ELSE IF u = <<>> THEN TRUE
    ELSE IF Head(u) # Head(v) THEN Head(u) < Head(v)
    ELSE SeqLess[Tail(u), Tail(v)]

StrLess(a, b) == SeqLess[CodePoints[a], CodePoints[b]]

\* sorted(names, reverse=True)
RECURSIVE sorted_descending(_)
sorted_descending(names) ==
    IF names = {} THEN <<>>
    ELSE LET most == CHOOSE a \in names : \A b \in names \ {a} : StrLess(b, a)
         IN  <<most>> \o sorted_descending(names \ {most})

\* sorted(list(names))
RECURSIVE sorted(_)
sorted(names) ==
    IF names = {} THEN <<>>
    ELSE LET least == CHOOSE a \in names : \A b \in names \ {a} : StrLess(a, b)
         IN  <<least>> \o sorted(names \ {least})

\* lines 78-81
RECURSIVE kind_name_id_loop(_, _, _)
kind_name_id_loop(sites, i, map) ==
    IF i > Len(sites) THEN map
    ELSE LET name == sites[i].kind_name
         IN  kind_name_id_loop(sites, i + 1,
                 IF name \in DOMAIN map THEN map
                 ELSE map @@ (name :> Cardinality(DOMAIN map) + 1))

\* ids handed out in alphabetical order of the names
kind_name_id_map_alphabetical(sites) ==
    LET names == { sites[i].kind_name : i \in 1..Len(sites) }
        order == sorted(names)
    IN  [name \in names |-> CHOOSE n \in 1..Len(order) : order[n] = name]

kind_name_id_map(sites) == kind_name_id_loop(sites, 1, EmptyDict)

\* a mapping that answers 0.0 for a name it does not hold
kind_mass_dict_default(kinds) ==
    [name \in Labels |->
        IF \E k \in kinds : k.name = name
        THEN (CHOOSE k \in kinds : k.name = name).mass ELSE Zero]

\* line 83
kind_mass_dict(kinds) ==
    [name \in {k.name : k \in kinds} |-> (CHOOSE k \in kinds : k.name = name).mass]

\* lines 94-96
round_cell(cell, round_dp) ==
    IF Truthy(round_dp)
    THEN [i \in Idx |-> [j \in Idx |-> np_round[cell[i][j], round_dp[1]]]]
    ELSE cell

round_positions(positions, round_dp) ==
    IF Truthy(round_dp)
    THEN [n \in DOMAIN positions |->
             [j \in Idx |-> np_round[positions[n][j], round_dp[1]]]]
    ELSE positions

\* lines 86-88
header_lines(docstring, nsites, nkinds) ==
    << <<"#", docstring>>, <<>>,
       <<ToString(nsites), "atoms">>,
       <<ToString(nkinds), "atom", "types">>, <<>> >>

\* lines 98-103
cell_lines(cell) ==
    << <<"0.0", Format[cell[1][1]], "xlo", "xhi">>,
       <<"0.0", Format[cell[2][2]], "ylo", "yhi">>,
       <<"0.0", Format[cell[3][3]], "zlo", "zhi">>,
       <<Format[cell[2][1]], Format[cell[3][1]], Format[cell[3][2]], "xy", "xz", "yz">>,
       <<>> >>

\* lines 106-109 (the blank that ends a line of the table is no field)
mass_lines(id_map, mass_dict) ==
    LET order == sorted(DOMAIN id_map)
    IN  [n \in 1..Len(order) |->
            <<ToString(id_map[order[n]]), Format[mass_dict[order[n]]]>>]

\* the charge override never consulted
atom_line_default_charge(site_index, pos, site, id_map, atom_style, charge_dict) ==
    LET kind_id == id_map[site.kind_name]
        xyz == <<Format[pos[1]], Format[pos[2]], Format[pos[3]]>>
    IN  (IF atom_style = "atomic"
         THEN << <<ToString(site_index + 1), ToString(kind_id)>> \o xyz >>
         ELSE <<>>)
        \o
        (IF atom_style = "charge"
         THEN << <<ToString(site_index + 1), ToString(kind_id), float_str[Zero]>>
                    \o xyz >>
         ELSE <<>>)

\* lines 116-124: what one iteration of the loop appends
atom_line(site_index, pos, site, id_map, atom_style, charge_dict) ==
    LET kind_id == id_map[site.kind_name]
        xyz == <<Format[pos[1]], Format[pos[2]], Format[pos[3]]>>
        charge == IF site.kind_name \in DOMAIN charge_dict
                  THEN charge_dict[site.kind_name] ELSE Zero
    IN  (IF atom_style = "atomic"
         THEN << <<ToString(site_index + 1), ToString(kind_id)>> \o xyz >>
         ELSE <<>>)
        \o
        (IF atom_style = "charge"
         THEN << <<ToString(site_index + 1), ToString(kind_id), float_str[charge]>>
                    \o xyz >>
         ELSE <<>>)

\* line 114
RECURSIVE atom_lines(_, _, _, _, _, _)
atom_lines(n, positions, sites, id_map, atom_style, charge_dict) ==
    IF n > Len(sites) THEN <<>>
    ELSE atom_line(n - 1, positions[n], sites[n], id_map, atom_style, charge_dict)
           \o atom_lines(n + 1, positions, sites, id_map, atom_style, charge_dict)

\* a third style let through
supported_style_full(atom_style) == atom_style \in {"atomic", "charge", "full"}

\* line 70
supported_style(atom_style) == atom_style \in {"atomic", "charge"}

\* lines 90-126, with kind_name_id_map and kind_mass_dict at hand
render(structure, atom_style, charges, round_dp, docstring, id_map, mass_dict, tc) ==
    LET moved == [n \in 1..Len(structure.sites) |->
                     MatVec[tc.transform, structure.sites[n].position]]
        cell == round_cell(tc.new_cell, round_dp)
        positions == round_positions(moved, round_dp)
    IN  [status |-> "ok",
         text |-> header_lines(docstring, Len(structure.sites),
                               Cardinality(DOMAIN id_map))
                    \o cell_lines(cell)
                    \o << <<"Masses">>, <<>> >>
                    \o mass_lines(id_map, mass_dict)
                    \o << <<>>, <<"Atoms">>, <<>> >>
                    \o atom_lines(1, positions, structure.sites, id_map,
                                  atom_style, charges),
         transform |-> tc.transform]

generate_lammps_structure(structure, atom_style, charge_dict, round_dp, docstring, signs) ==
    IF ~supported_style(atom_style) THEN [status |-> "ValueError"]
    ELSE
    WithValue(kind_name_id_map(structure.sites), LAMBDA id_map :
    WithValue(kind_mass_dict(structure.kinds), LAMBDA mass_dict :
        IF \E name \in DOMAIN id_map : name \notin DOMAIN mass_dict
        THEN [status |-> "KeyError"]
        ELSE WithValue(transform_cell(structure.cell, signs), LAMBDA tc :
                 render(structure, atom_style,
                        IF charge_dict = None THEN EmptyDict ELSE charge_dict[1],
                        round_dp, docstring, id_map, mass_dict, tc))))

---------------------------------------------------------------------------
(* Input cells: a lower-triangular cell (diagonal of either sign) seen in  *)
(* a rotated or reflected frame.                                           *)

LowerCells ==
    { IntMat(<<<<2, 0, 0>>, <<0, 2, 0>>, <<0, 0, 2>>>>),
      IntMat(<<<<2, 0, 0>>, <<1, 2, 0>>, <<1, 1, 2>>>>),
      IntMat(<<<<-2, 0, 0>>, <<1, 2, 0>>, <<1, 1, 2>>>>),
      IntMat(<<<<3, 0, 0>>, <<-1, -2, 0>>, <<1, -1, -1>>>>) }

Frames ==
    { Eye,
      IntMat(<<<<0, 1, 0>>, <<1, 0, 0>>, <<0, 0, 1>>>>),
      <<<<Rat(3, 5), Rat(4, 5), Zero>>, <<Rat(-4, 5), Rat(3, 5), Zero>>, <<Zero, Zero, One>>>>,
      <<<<Zero, Zero, One>>, <<Rat(3, 5), Rat(-4, 5), Zero>>, <<Rat(4, 5), Rat(3, 5), Zero>>>> }

Cells == { MatMul[l, o] : l \in LowerCells, o \in Frames }

NoFolder == EmptyDict
NoRet == [status |-> "none"]

InitCell ==
    /\ entry = "transform_cell"
    /\ args \in { [cell |-> c] : c \in Cells }
    /\ pc = "ready"
    /\ ret = NoRet
    /\ folder = NoFolder

TransformCell ==
    /\ entry = "transform_cell"
    /\ pc = "ready"
    /\ \E signs \in Signs :
         ret' = [status |-> "ok"] @@ transform_cell(args.cell, signs)
    /\ pc' = "done"
    /\ UNCHANGED <<entry, args, folder>>

NextCell == TransformCell

SpecCell == InitCell /\ [][NextCell]_vars

---------------------------------------------------------------------------
(* Input structures.                                                       *)

MaxSites == 2
MaxRoundDp == 2

MassOf ==
    ("O" :> Rat(15999, 1000)) @@ ("Fe" :> Rat(55845, 1000)) @@ ("Fe2" :> Rat(167, 3))

KindsOf(names) == { [name |-> l, mass |-> MassOf[l]] : l \in names }

Triclinic == IntMat(<<<<2, 0, 0>>, <<1, 2, 0>>, <<1, 1, 2>>>>)

\* fractional coordinates of the sites
Fracs ==
    { <<Zero, Zero, Zero>>,
      <<Rat(1, 2), Rat(1, 2), Rat(1, 2)>>,
      <<Rat(1, 3), Rat(3, 4), Rat(1, 8)>> }

SeqsUpTo(S, n) == UNION { [1..m -> S] : m \in 0..n }

SitesOf(cell, names, fracs) ==
    SeqsUpTo({ [kind_name |-> l, position |-> VecMat[f, cell]] :
                 l \in names, f \in fracs }, MaxSites)

ChargeDicts ==
    { None, Some(EmptyDict), Some("Fe" :> Int2Rat(-1)),
      Some(("O" :> Int2Rat(-2)) @@ ("Fe2" :> Rat(1, 2))) }

DefaultDocstring == "generated by aiida_lammps"

\* species, kinds, styles and charges vary over one cell
TableArgs ==
    { [structure |-> [cell |-> Triclinic, sites |-> s, kinds |-> KindsOf(k)],
       atom_style |-> a, charge_dict |-> c, round_dp |-> None,
       docstring |-> DefaultDocstring] :
        s \in SitesOf(Triclinic, Labels, {<<Rat(1, 2), Rat(1, 2), Rat(1, 2)>>}),
        k \in SUBSET Labels, a \in {"atomic", "charge", "charged", "full"},
        c \in ChargeDicts }

GenCells ==
    { MatMul[l, o] :
        l \in { Triclinic, IntMat(<<<<3, 0, 0>>, <<-1, -2, 0>>, <<1, -1, -1>>>>) },
        o \in { Eye,
                <<<<Rat(3, 5), Rat(4, 5), Zero>>, <<Rat(-4, 5), Rat(3, 5), Zero>>,
                  <<Zero, Zero, One>>>> } }

\* cells, positions and the rounding precision vary over one species
NumericArgs ==
    UNION { { [structure |-> [cell |-> cl, sites |-> s, kinds |-> KindsOf({"Fe"})],
               atom_style |-> "atomic", charge_dict |-> None, round_dp |-> r,
               docstring |-> DefaultDocstring] :
                s \in SitesOf(cl, {"Fe"}, Fracs),
                r \in {None} \cup { Some(d) : d \in 0..MaxRoundDp } } :
            cl \in GenCells }

InitGen ==
    /\ entry = "generate_lammps_structure"
    /\ args \in TableArgs \cup NumericArgs
    /\ pc = "ready"
    /\ ret = NoRet
    /\ folder = NoFolder

GenerateLammpsStructure ==
    /\ entry = "generate_lammps_structure"
    /\ pc = "ready"
    /\ \E signs \in Signs :
         ret' = generate_lammps_structure(args.structure, args.atom_style,
                    args.charge_dict, args.round_dp, args.docstring, signs)
    /\ pc' = "done"
    /\ UNCHANGED <<entry, args, folder>>

NextGen == GenerateLammpsStructure

SpecGen == InitGen /\ [][NextGen]_vars

---------------------------------------------------------------------------
(* BaseLammpsCalculation                                                   *)
(*                                                                         *)
(* inputs is a record of optional nodes (None: the port is not in the      *)
(* inputs) and of the metadata options; the folder maps a file name to     *)
(* the content written under it.                                           *)

DEFAULT_POTENTIAL_FILENAME == "potential.dat"
DEFAULT_READ_RESTART_FILENAME == "aiida_lammps.restart"

DefaultOptions ==
    [input_filename |-> "input.in",
     structure_filename |-> "structure.dat",
     output_filename |-> "lammps_output",
     logfile_filename |-> "log.lammps",
     variables_filename |-> "aiida_lammps.yaml",
     trajectory_filename |-> "aiida_lammps.trajectory.dump",
     restart_filename |-> "lammps.restart"]

\* validate_inputs: TRUE when no error message is returned
validate_inputs(value) ==
    ~(value.script = None
        /\ \E key \in {"structure", "potential", "parameters"} : value[key] = None)

write(dir, name, content) ==
    [n \in DOMAIN dir \cup {name} |-> IF n = name THEN content ELSE dir[n]]

\* dict.get(key, False)
get(dict, key) == IF key \in DOMAIN dict THEN dict[key] ELSE FALSE

\* common/input_generator.py is not among the sources: the generated script
\* is kept as the record of the arguments it is generated from
generate_input_file(potential, structure, parameters, restart_filename, trajectory_filename, variables_filename, read_restart_filename) ==
    [potential |-> potential, structure |-> structure, parameters |-> parameters,
     restart_filename |-> restart_filename,
     trajectory_filename |-> trajectory_filename,
     variables_filename |-> variables_filename,
     read_restart_filename |-> read_restart_filename]

\* lines 301-316
retrieve_lists(options, parameters) ==
    LET base == <<options.output_filename, options.logfile_filename,
                  options.variables_filename, options.trajectory_filename>>
        restart == IF "restart" \in DOMAIN parameters
                   THEN parameters["restart"] ELSE EmptyDict
    IN  [retrieve_list |->
            IF get(restart, "print_final")
            THEN Append(base, options.restart_filename) ELSE base,
         retrieve_temporary_list |->
            IF get(restart, "print_intermediate")
            THEN << <<options.restart_filename \o "*", ".", None>> >> ELSE <<>>]

\* lines 288-321: the CalcInfo, without the uuids of the code and the job
calc_info(options, parameters) ==
    [status |-> "ok",
     codes_info |-> << [cmdline_params |-> <<"-in", options.input_filename,
                                             "-log", options.logfile_filename>>,
                        stdout_name |-> options.output_filename] >>]
      @@ retrieve_lists(options, parameters)

\* the parameters read whenever they are given
parameters_if_present(inputs) ==
    IF inputs.parameters # None THEN inputs.parameters[1] ELSE EmptyDict

\* lines 245-251: _parameters
parameters_used(inputs) ==
    IF inputs.script # None THEN EmptyDict ELSE inputs.parameters[1]

\* [ret, folder]: the CalcInfo returned (or the exception raised) and the
\* folder as the call leaves it
prepare_for_submission(inputs, dir, signs) ==
    LET options == inputs.options
        read_restart_filename ==
            IF inputs.input_restartfile # None
            THEN Some(DEFAULT_READ_RESTART_FILENAME) ELSE None
        dir1 == IF inputs.input_restartfile # None
                THEN write(dir, DEFAULT_READ_RESTART_FILENAME,
                           inputs.input_restartfile[1])
                ELSE dir
    IN  IF inputs.script # None
        THEN [ret |-> calc_info(options, parameters_used(inputs)),
              folder |-> write(dir1, options.input_filename, inputs.script[1])]
        ELSE
        WithValue(generate_lammps_structure(inputs.structure[1],
                      inputs.potential[1].atom_style, None, None,
                      DefaultDocstring, signs), LAMBDA generated :
            IF generated.status # "ok"
            THEN [ret |-> generated, folder |-> dir1]
            ELSE
            LET parameters == parameters_used(inputs)
                dir2 == write(dir1, options.structure_filename, generated.text)
                dir3 == write(dir2, DEFAULT_POTENTIAL_FILENAME,
                              inputs.potential[1].content)
                input_filecontent ==
                    generate_input_file(inputs.potential[1], inputs.structure[1],
                        parameters, options.restart_filename,
                        options.trajectory_filename, options.variables_filename,
                        read_restart_filename)
            IN  [ret |-> calc_info(options, parameters),
                 folder |-> write(dir3, options.input_filename, input_filecontent)])

Scripts == {"units metal", "units real"}

CalcStructures ==
    { [cell |-> Triclinic,
       sites |-> << [kind_name |-> "O", position |-> <<One, One, One>>],
                    [kind_name |-> "Fe", position |-> <<Zero, One, Rat(1, 2)>>] >>,
       kinds |-> KindsOf(k)] : k \in {{"O", "Fe"}, {"Fe"}} }

Potentials ==
    { [atom_style |-> a, content |-> "pair_style eam"] :
        a \in {"atomic", "charge", "full"} }

RestartDicts ==
    { EmptyDict, "print_final" :> TRUE, "print_final" :> FALSE,
      "print_intermediate" :> TRUE,
      ("print_final" :> TRUE) @@ ("print_intermediate" :> TRUE) }

ParameterDicts ==
    { EmptyDict } \cup { "restart" :> r : r \in RestartDicts }

Optional(S) == { None } \cup { Some(v) : v \in S }

CalcInputs ==
    { i \in [script : Optional(Scripts),
             structure : Optional(CalcStructures),
             potential : Optional(Potentials),
             parameters : Optional(ParameterDicts),
             input_restartfile : Optional({"restart data"}),
             options : {DefaultOptions}] : validate_inputs(i) }

InitCalc ==
    /\ entry = "prepare_for_submission"
    /\ args \in { [inputs |-> i] : i \in CalcInputs }
    /\ pc = "ready"
    /\ ret = NoRet
    /\ folder = NoFolder

PrepareForSubmission ==
    /\ entry = "prepare_for_submission"
    /\ pc = "ready"
    /\ \E signs \in Signs :
         \E out \in {prepare_for_submission(args.inputs, folder, signs)} :
            /\ ret' = out.ret
            /\ folder' = out.folder
    /\ pc' = "done"
    /\ UNCHANGED <<entry, args>>

NextCalc == PrepareForSubmission

SpecCalc == InitCalc /\ [][NextCalc]_vars

---------------------------------------------------------------------------
(* Properties of transform_cell (SpecCell).                                *)

CellDone == entry = "transform_cell" /\ pc = "done"

LowerTriangular(m) == \A i \in Idx : \A j \in Idx : i < j => m[i][j] = Zero
PositiveDiagonal(m) == \A i \in Idx : RLess[Zero, m[i][i]]
NegativeDiagonals(m) == Cardinality({ i \in Idx : RLess[m[i][i], Zero] })

\* C6: for every non-degenerate cell the normalized cell returned by
\* transform_cell has its three above-diagonal entries equal to zero and its
\* three diagonal entries > 0, whatever the signs of the diagonal of the
\* triangular factor were.
C6_NormalizedCellShape ==
    CellDone => LowerTriangular(ret.new_cell) /\ PositiveDiagonal(ret.new_cell)

\* a factorization with three negative diagonal entries was corrected, for a
\* cell that is not itself lower triangular
C6_Witness ==
    /\ CellDone
    /\ NegativeDiagonals(ret.upper_tri) = 3
    /\ ~LowerTriangular(args.cell)
    /\ PositiveDiagonal(ret.new_cell)

\* C7 as stated: normalized_cell = transform . original_cell, with
\* normalized_cell = S . candidate_cell and transform = Q . S^T.
C7_Original ==
    CellDone =>
        /\ ret.new_cell = MatMul[ret.transform, args.cell]
        /\ ret.new_cell = MatMul[ret.inversion, Transpose[ret.upper_tri]]
        /\ ret.transform = MatMul[ret.q, Transpose[ret.inversion]]

\* C7 amended: transform maps every lattice vector (row of the cell) to the
\* corresponding row of the normalized cell, that is
\* normalized_cell^T = transform . original_cell^T; normalized_cell is the
\* candidate with its columns scaled by S (candidate_cell . S) and transform
\* is (Q . S^T)^T = S . Q^T.
C7_CellTransformRelation ==
    CellDone =>
        /\ Transpose[ret.new_cell] = MatMul[ret.transform, Transpose[args.cell]]
        /\ ret.new_cell = MatMul[Transpose[ret.upper_tri], ret.inversion]
        /\ ret.transform = MatMul[ret.inversion, Transpose[ret.q]]

\* a sheared cell in a rotated frame whose factorization needed a correction
C7_Witness ==
    /\ CellDone
    /\ ret.inversion # Eye
    /\ ret.q # Eye
    /\ ret.new_cell[2][1] # Zero
    /\ Transpose[ret.new_cell] = MatMul[ret.transform, Transpose[args.cell]]

---------------------------------------------------------------------------
(* Properties of generate_lammps_structure (SpecGen).                      *)

GenDone == entry = "generate_lammps_structure" /\ pc = "done"
GenOk == GenDone /\ ret.status = "ok"

Raised == DOMAIN ret = {"status"} /\ ret.status \in {"ValueError", "KeyError"}

\* the tables of a text, found the way a reader of the file finds them
LineOf(text, line) == CHOOSE i \in 1..Len(text) : text[i] = line
MassTable(text) ==
    SubSeq(text, LineOf(text, <<"Masses">>) + 2, LineOf(text, <<"Atoms">>) - 2)
AtomTable(text) == SubSeq(text, LineOf(text, <<"Atoms">>) + 2, Len(text))
BoxLines(text) ==
    SubSeq(text, LineOf(text, <<"Masses">>) - 5, LineOf(text, <<"Masses">>) - 2)

UsedNames(sites) == { sites[i].kind_name : i \in 1..Len(sites) }
KindNames(kinds) == { k.name : k \in kinds }
FirstIndex(sites, name) ==
    CHOOSE i \in 1..Len(sites) :
        sites[i].kind_name = name /\ \A j \in 1..(i - 1) : sites[j].kind_name # name
\* the rank of a name in order of first appearance among the sites
KindId(sites, name) ==
    Cardinality({ l \in UsedNames(sites) :
                    FirstIndex(sites, l) <= FirstIndex(sites, name) })
MassOfKind(kinds, name) == (CHOOSE k \in kinds : k.name = name).mass
MissingKind(structure) ==
    \E i \in 1..Len(structure.sites) :
        structure.sites[i].kind_name \notin KindNames(structure.kinds)

\* C1: for every structure and every atom style that is neither "atomic"
\* nor "charge" (the two styles the code supports), generate_lammps_structure
\* raises the unsupported-style error and returns neither text nor
\* transform, whatever the other arguments are.
C1_UnsupportedStyle ==
    GenDone /\ args.atom_style \notin {"atomic", "charge"}
        => ret.status = "ValueError" /\ DOMAIN ret = {"status"}

\* style "full" on a structure that would also fail the mass lookup
C1_Witness ==
    /\ GenDone
    /\ args.atom_style = "full"
    /\ MissingKind(args.structure)
    /\ args.charge_dict # None
    /\ ret.status = "ValueError"

\* C2: in style "charge" every site's atom line carries a charge field
\* between the kind id and the position, the override given for the site's
\* kind name or 0.0 when there is none; in style "atomic" no atom line
\* carries a charge field.
C2_ChargeField ==
    GenOk =>
        LET t == AtomTable(ret.text)
            sites == args.structure.sites
            given == IF args.charge_dict = None THEN EmptyDict
                     ELSE args.charge_dict[1]
            expected(name) ==
                IF name \in DOMAIN given THEN float_str[given[name]] ELSE "0.0"
        IN  /\ Len(t) = Len(sites)
            /\ args.atom_style = "charge" =>
                 \A i \in 1..Len(t) :
                    Len(t[i]) = 6 /\ t[i][3] = expected(sites[i].kind_name)
            /\ args.atom_style = "atomic" => \A i \in 1..Len(t) : Len(t[i]) = 5

\* one site with an override and one without
C2_Witness ==
    /\ GenOk
    /\ args.atom_style = "charge"
    /\ Len(args.structure.sites) = 2
    /\ args.structure.sites[1].kind_name = "Fe"
    /\ args.structure.sites[2].kind_name = "O"
    /\ args.charge_dict = Some("Fe" :> Int2Rat(-1))
    /\ AtomTable(ret.text)[1][3] = "-1.0"
    /\ AtomTable(ret.text)[2][3] = "0.0"

\* C3: the atom table has exactly one line per site, in input order; line i
\* starts with the 1-based index i followed by the kind id of site i's kind
\* name, the kind ids being 1, 2, ..., K in order of first appearance of the
\* names among the sites.
C3_AtomTable ==
    GenOk =>
        LET t == AtomTable(ret.text)
            sites == args.structure.sites
        IN  /\ Len(t) = Len(sites)
            /\ \A i \in 1..Len(t) :
                 /\ t[i][1] = ToString(i)
                 /\ t[i][2] = ToString(KindId(sites, sites[i].kind_name))

\* the names first appear in an order that is not the alphabetical one
C3_Witness ==
    /\ GenOk
    /\ Len(args.structure.sites) = 2
    /\ args.structure.sites[1].kind_name = "O"
    /\ args.structure.sites[2].kind_name = "Fe"
    /\ AtomTable(ret.text)[1][2] = "1"
    /\ AtomTable(ret.text)[2][2] = "2"

\* C4 as stated: the mass table has one line per Kind of the structure, in
\* lexicographic order of the kind names, each carrying the kind id of its
\* name and the Kind's mass.
C4_Original ==
    GenOk =>
        LET t == MassTable(ret.text)
            sites == args.structure.sites
            kinds == args.structure.kinds
            names == KindNames(kinds)
        IN  /\ Len(t) = Cardinality(names)
            /\ \A n \in 1..Len(t) : \E l \in names :
                 /\ Cardinality({ m \in names : StrLess(m, l) }) = n - 1
                 /\ t[n] = <<ToString(KindId(sites, l)), Format[MassOfKind(kinds, l)]>>

\* C4 amended: the mass table has one line per kind name that occurs among
\* the sites (a Kind no site refers to has no line), in lexicographic
\* order of the names whatever the order of their first appearance; each
\* line carries the kind id of its name and the mass of the Kind so named.
C4_MassTable ==
    GenOk =>
        LET t == MassTable(ret.text)
            sites == args.structure.sites
            kinds == args.structure.kinds
            names == UsedNames(sites)
        IN  /\ Len(t) = Cardinality(names)
            /\ \A n \in 1..Len(t) : \E l \in names :
                 /\ Cardinality({ m \in names : StrLess(m, l) }) = n - 1
                 /\ t[n] = <<ToString(KindId(sites, l)), Format[MassOfKind(kinds, l)]>>

\* first appearance O, Fe; the table lists Fe (id 2) before O (id 1) and
\* nothing for the Kind Fe2 that no site refers to
C4_Witness ==
    /\ GenOk
    /\ Len(args.structure.sites) = 2
    /\ args.structure.sites[1].kind_name = "O"
    /\ args.structure.sites[2].kind_name = "Fe"
    /\ KindNames(args.structure.kinds) = {"O", "Fe", "Fe2"}
    /\ Len(MassTable(ret.text)) = 2
    /\ MassTable(ret.text)[1][1] = "2"
    /\ MassTable(ret.text)[2][1] = "1"

\* C5: when a site names a kind that is not among the structure's Kinds the
\* call raises and returns no text; a call either returns the complete text
\* (with its transform) or raises and returns nothing.
C5_MissingKind ==
    GenDone =>
        /\ MissingKind(args.structure) => Raised
        /\ \/ Raised
           \/ /\ DOMAIN ret = {"status", "text", "transform"}
              /\ ret.status = "ok"
              /\ Len(AtomTable(ret.text)) = Len(args.structure.sites)
              /\ Len(MassTable(ret.text))
                   = Cardinality(UsedNames(args.structure.sites))

\* a supported style, so that the failure is the lookup of the mass
C5_Witness ==
    /\ GenDone
    /\ args.atom_style = "charge"
    /\ MissingKind(args.structure)
    /\ Len(args.structure.sites) = 2
    /\ args.structure.sites[1].kind_name \in KindNames(args.structure.kinds)
    /\ ret.status = "KeyError"

PlusSigns == <<1, 1, 1>>

\* the fields of the box lines and of the atom lines that hold a cell or a
\* position component rendered from the given cell and positions
NumbersRendered(text, cell, positions) ==
    LET b == BoxLines(text)
        t == AtomTable(text)
    IN  /\ b[1][2] = Format[cell[1][1]]
        /\ b[2][2] = Format[cell[2][2]]
        /\ b[3][2] = Format[cell[3][3]]
        /\ SubSeq(b[4], 1, 3)
             = <<Format[cell[2][1]], Format[cell[3][1]], Format[cell[3][2]]>>
        /\ Len(t) = Len(positions)
        /\ \A i \in 1..Len(t) :
             SubSeq(t[i], Len(t[i]) - 2, Len(t[i]))
               = <<Format[positions[i][1]], Format[positions[i][2]],
                   Format[positions[i][3]]>>

\* C9: for every rounding precision d >= 0 that is supplied, every rendered
\* cell and position component is rounded to d decimal places before it is
\* formatted; only when no precision is supplied are the values rendered
\* unrounded.
C9_RoundingApplied ==
    GenOk =>
        LET tc == transform_cell(args.structure.cell, PlusSigns)
            sites == args.structure.sites
            rounded(v) == IF args.round_dp = None THEN v
                          ELSE np_round[v, args.round_dp[1]]
        IN  NumbersRendered(ret.text,
                [i \in Idx |-> [j \in Idx |-> rounded(tc.new_cell[i][j])]],
                [n \in 1..Len(sites) |->
                    [j \in Idx |-> rounded(MatVec[ret.transform, sites[n].position][j])]])

\* C10: a site at f . cell (f its fractional coordinates) is written at
\* f . normalized_cell, rounded when the call rounds, also when diagonal
\* entries were sign-corrected: what is done to an axis of the cell is done
\* to the same axis of every position.
C10_FractionalCoordinatesKept ==
    GenOk =>
        LET tc == transform_cell(args.structure.cell, PlusSigns)
            sites == args.structure.sites
            t == AtomTable(ret.text)
            rounded(v) == IF args.round_dp \in {None, Some(0)} THEN v
                          ELSE np_round[v, args.round_dp[1]]
        IN  /\ Len(t) = Len(sites)
            /\ \A i \in 1..Len(t) : \A f \in Fracs :
                 sites[i].position = VecMat[f, args.structure.cell] =>
                    LET at == VecMat[f, tc.new_cell]
                    IN  SubSeq(t[i], Len(t[i]) - 2, Len(t[i]))
                          = <<Format[rounded(at[1])], Format[rounded(at[2])],
                              Format[rounded(at[3])]>>

\* a cell whose second and third axes are reflected, and a site off every
\* axis: the site is reflected with the cell
C10_Witness ==
    /\ GenOk
    /\ args.round_dp = None
    /\ args.structure.cell = IntMat(<<<<3, 0, 0>>, <<-1, -2, 0>>, <<1, -1, -1>>>>)
    /\ ret.transform = Diag(<<1, -1, -1>>)
    /\ Len(args.structure.sites) = 2
    /\ args.structure.sites[2].position
         = VecMat[<<Rat(1, 3), Rat(3, 4), Rat(1, 8)>>, args.structure.cell]
    /\ AtomTable(ret.text)[2][4] = Format[Rat(13, 8)]
    /\ AtomTable(ret.text)[2][5] = Format[Rat(1, 8)]

---------------------------------------------------------------------------
(* Properties of prepare_for_submission (SpecCalc).                        *)

CalcDone == entry = "prepare_for_submission" /\ pc = "done"

\* C8: when script is given, structure, potential and parameters are
\* ignored even if present: no structure file and no potential file is
\* written, the input file holds exactly the script, and the retrieve lists
\* are the four fixed names and nothing temporary, whatever parameters says
\* about restart files.
C8_ScriptOverrides ==
    CalcDone /\ args.inputs.script # None =>
        LET o == args.inputs.options
        IN  /\ ret.status = "ok"
            /\ o.structure_filename \notin DOMAIN folder
            /\ DEFAULT_POTENTIAL_FILENAME \notin DOMAIN folder
            /\ folder[o.input_filename] = args.inputs.script[1]
            /\ ret.retrieve_list
                 = <<o.output_filename, o.logfile_filename,
                     o.variables_filename, o.trajectory_filename>>
            /\ ret.retrieve_temporary_list = <<>>

\* script given together with a structure, an unsupported potential style
\* and parameters that ask for both restart files
C8_Witness ==
    /\ CalcDone
    /\ args.inputs.script # None
    /\ args.inputs.structure # None
    /\ args.inputs.potential # None
    /\ args.inputs.potential[1].atom_style = "full"
    /\ args.inputs.parameters
         = Some("restart" :> (("print_final" :> TRUE) @@ ("print_intermediate" :> TRUE)))
    /\ args.inputs.input_restartfile # None
    /\ ret.status = "ok"
    /\ Len(ret.retrieve_list) = 4

=============================================================================
